---- MODULE Spec2Model ----
(***************************************************************************)
(* Model of textgrid.py: class TextGrid.                                   *)
(*                                                                         *)
(* A line of text is a record [ind, lit, rest]: ind is the number of       *)
(* leading whitespace characters, lit the fixed wording the line starts    *)
(* with after them (up to and including the blank before the value), rest  *)
(* the remaining characters, one-character strings.  The regular           *)
(* expressions of _parse_textgrid are evaluated on these records: the      *)
(* literal part against ind and lit, the capture groups character by       *)
(* character on rest.                                                      *)
(*                                                                         *)
(* Python's None is the empty tuple <<>> and a value v is <<v>>, wherever a *)
(* field may hold None.  A float is an integer number of 10^-FracDigits.   *)
(***************************************************************************)
EXTENDS Integers, Sequences, FiniteSets, TLC

\* ------------------------------------------------------------------ bounds
MaxFree == 4        \* lines of a free-form text
MaxTiers == 3       \* tiers of a well-formed text
MaxSize == 2        \* intervals of one tier of a well-formed text
MaxRows == 3        \* intervals of a well-formed text

\* -------------------------------------------------------------- characters
Q == "\""
FracDigits == 5
DigitChars == <<"0", "1", "2", "3", "4", "5", "6", "7", "8", "9">>
Digits == {DigitChars[i] : i \in 1..10}
WordChars == Digits \cup {"a", "b", "o", "T", "G", "N", "n", "e", "_"}

None == <<>>
Some(v) == <<v>>

Pow10(n) == CASE n = 0 -> 1 [] n = 1 -> 10 [] n = 2 -> 100 [] n = 3 -> 1000
              [] n = 4 -> 10000 [] n = 5 -> 100000 [] OTHER -> 1000000
Scale == Pow10(FracDigits)

DigitVal(c) == (CHOOSE i \in 1..10 : DigitChars[i] = c) - 1

\* int("123")
RECURSIVE DecVal(_)
DecVal(s) == IF s = <<>> THEN 0
             ELSE 10 * DecVal(SubSeq(s, 1, Len(s) - 1)) + DigitVal(s[Len(s)])

\* str(n) for an int n >= 0
RECURSIVE IntStr(_)
IntStr(n) == IF n < 10 THEN <<DigitChars[n + 1]>>
             ELSE IntStr(n \div 10) \o <<DigitChars[(n % 10) + 1]>>

\* length of the longest prefix of s made of characters of S (a greedy X*)
Span(s, S) == CHOOSE n \in 0..Len(s) :
                /\ \A i \in 1..n : s[i] \in S
                /\ n = Len(s) \/ s[n + 1] \notin S

Drop(s, n) == SubSeq(s, n + 1, Len(s))
Take(s, n) == SubSeq(s, 1, n)

\* positions of character c in s
Positions(s, c) == {i \in 1..Len(s) : s[i] = c}
Max(S) == CHOOSE m \in S : \A k \in S : k <= m

\* ------------------------------------------------------ capture groups
\* Each Cap* operator gives None when the pattern does not match and
\* Some(captured characters) when it does.

\* \"(\w+)\"
CapWord(rest) ==
    IF Len(rest) >= 1 /\ rest[1] = Q
    THEN LET t == Drop(rest, 1)
             w == Span(t, WordChars)
         IN IF w >= 1 /\ w < Len(t) /\ t[w + 1] = Q THEN Some(Take(t, w)) ELSE None
    ELSE None

\* \"(.*)\"   (greedy: up to the last quote of the line)
CapQuoted(rest) ==
    IF Len(rest) >= 1 /\ rest[1] = Q /\ Positions(Drop(rest, 1), Q) # {}
    THEN LET t == Drop(rest, 1) IN Some(Take(t, Max(Positions(t, Q)) - 1))
    ELSE None

\* <(.*)>
CapAngle(rest) ==
    IF Len(rest) >= 1 /\ rest[1] = "<" /\ Positions(Drop(rest, 1), ">") # {}
    THEN LET t == Drop(rest, 1) IN Some(Take(t, Max(Positions(t, ">")) - 1))
    ELSE None

\* (\d+)
CapInt(rest) ==
    LET d == Span(rest, Digits) IN IF d >= 1 THEN Some(Take(rest, d)) ELSE None

\* (\d+)]
CapIndex(rest) ==
    LET d == Span(rest, Digits)
    IN IF d >= 1 /\ d < Len(rest) /\ rest[d + 1] = "]" THEN Some(Take(rest, d)) ELSE None

\* (\d+\.\d+)
CapDecimal(rest) ==
    LET d == Span(rest, Digits)
        t == Drop(rest, d + 1)
        f == Span(t, Digits)
    IN IF d >= 1 /\ d < Len(rest) /\ rest[d + 1] = "." /\ f >= 1
       THEN Some(Take(rest, d + 1 + f)) ELSE None

\* (\d*\.*\d*)   always matches, possibly the empty string
CapLoose(rest) ==
    LET d == Span(rest, Digits)
        p == Span(Drop(rest, d), {"."})
        f == Span(Drop(rest, d + p), Digits)
    IN Some(Take(rest, d + p + f))

\* ------------------------------------------------------------- floats
\* float(s) accepts digits, at most one point, and at least one digit.
FloatOk(s) ==
    LET d == Span(s, Digits)
        p == Span(Drop(s, d), {"."})
        f == Span(Drop(s, d + p), Digits)
    IN d + p + f = Len(s) /\ p <= 1 /\ d + f >= 1

\* float(s) for FloatOk(s), in units of 10^-FracDigits (fraction digits
\* beyond FracDigits are not representable and are cut)
FloatVal(s) ==
    LET d == Span(s, Digits)
        p == Span(Drop(s, d), {"."})
        f == Span(Drop(s, d + p), Digits)
        g == IF f > FracDigits THEN FracDigits ELSE f
    IN DecVal(Take(s, d)) * Scale
       + DecVal(SubSeq(s, d + p + 1, d + p + g)) * Pow10(FracDigits - g)

\* the FracDigits fraction digits of v, without trailing zeros, at least one
RECURSIVE StripZeros(_)
StripZeros(s) == IF Len(s) > 1 /\ s[Len(s)] = "0"
                 THEN StripZeros(Take(s, Len(s) - 1)) ELSE s

RECURSIVE PadLeft(_, _)
PadLeft(s, n) == IF Len(s) >= n THEN s ELSE PadLeft(<<"0">> \o s, n)

\* str(v) of a float v >= 0: repr switches to exponent notation below 1e-4
FloatStr(v) ==
    IF v # 0 /\ v < Scale \div 10000
    THEN IntStr(v) \o <<"e", "-", "0", "5">>
    ELSE IntStr(v \div Scale) \o <<".">>
         \o StripZeros(PadLeft(IntStr(v % Scale), FracDigits))

NoneStr == <<"N", "o", "n", "e">>

\* f"{x}" of an optional string, int or float
StrOfStr(x) == IF x = None THEN NoneStr ELSE x[1]
StrOfInt(x) == IF x = None THEN NoneStr ELSE IntStr(x[1])
StrOfFloat(x) == IF x = None THEN NoneStr ELSE FloatStr(x[1])

\* -------------------------------------------------------------- lines
L(ind, lit, rest) == [ind |-> ind, lit |-> lit, rest |-> rest]

\* the regular expressions of _parse_textgrid (re.match anchors at the
\* first character of the line; \s+ needs at least one leading blank)
MatchFileType(l) == IF l.ind = 0 /\ l.lit = "File type = " THEN CapWord(l.rest) ELSE None
MatchObjectClass(l) == IF l.ind = 0 /\ l.lit = "Object class = " THEN CapWord(l.rest) ELSE None
MatchTopXmin(l) == IF l.ind = 0 /\ l.lit = "xmin = " THEN CapDecimal(l.rest) ELSE None
MatchTopXmax(l) == IF l.ind = 0 /\ l.lit = "xmax = " THEN CapDecimal(l.rest) ELSE None
MatchTiers(l) == IF l.ind = 0 /\ l.lit = "tiers? " THEN CapAngle(l.rest) ELSE None
MatchSize(l) == IF l.ind = 0 /\ l.lit = "size = " THEN CapInt(l.rest) ELSE None
MatchItem(l) == IF l.ind >= 1 /\ l.lit = "item [" THEN CapIndex(l.rest) ELSE None
MatchName(l) == IF l.ind >= 1 /\ l.lit = "name = " THEN CapQuoted(l.rest) ELSE None
MatchIntervals(l) == IF l.ind >= 1 /\ l.lit = "intervals: size = " THEN CapInt(l.rest) ELSE None
MatchXmin(l) == IF l.ind >= 1 /\ l.lit = "xmin = " THEN CapLoose(l.rest) ELSE None
MatchXmax(l) == IF l.ind >= 1 /\ l.lit = "xmax = " THEN CapLoose(l.rest) ELSE None
MatchText(l) == IF l.ind >= 1 /\ l.lit = "text = " THEN CapQuoted(l.rest) ELSE None

\* outcomes of a call
Ok == "ok"
TooManyTiers == "ValueError: There are too many tiers"
NoTierCount == "TypeError: '>=' not supported between 'int' and 'NoneType'"
BadFloat == "ValueError: could not convert string to float"
Unsupported == "ValueError: Unsupported file extension"
InvalidForTextgrid == "ValueError: Invalid file extension for textgrid"
InvalidForCsv == "ValueError: Invalid file extension for CSV"
BadFrame == "ValueError: DataFrame constructor not properly called!"

Repeat(x, n) == [i \in 1..n |-> x]

EmptyContent == [tier |-> <<>>, start |-> <<>>, end |-> <<>>, annotation |-> <<>>]

\* the fields __init__ sets before it reads the file, with the two locals
\* of _parse_textgrid; err is the exception an iteration raised
NewObject == [file_type |-> None, object_class |-> None, xmin |-> None, xmax |-> None,
              tiers |-> None, n_tiers |-> None, content |-> EmptyContent,
              tier_header |-> TRUE, tier_name |-> None, err |-> None]

\* one pattern of the loop body each; s is the state the previous patterns left
DoFileType(s, l) ==
    LET m == MatchFileType(l) IN IF m # None THEN [s EXCEPT !.file_type = Some(m[1])] ELSE s

DoObjectClass(s, l) ==
    LET m == MatchObjectClass(l) IN IF m # None THEN [s EXCEPT !.object_class = Some(m[1])] ELSE s

\* DoTopXmin without the condition tier_name is None
DoTopXminAlways(s, l) ==
    LET m == MatchTopXmin(l)
    IN IF m # None THEN [s EXCEPT !.xmin = Some(FloatVal(m[1]))] ELSE s

DoTopXmin(s, l) ==
    LET m == MatchTopXmin(l)
    IN IF m # None /\ s.tier_name = None THEN [s EXCEPT !.xmin = Some(FloatVal(m[1]))] ELSE s

DoTopXmax(s, l) ==
    LET m == MatchTopXmax(l)
    IN IF m # None /\ s.tier_name = None THEN [s EXCEPT !.xmax = Some(FloatVal(m[1]))] ELSE s

DoTiers(s, l) ==
    LET m == MatchTiers(l) IN IF m # None THEN [s EXCEPT !.tiers = Some(m[1])] ELSE s

DoSize(s, l) ==
    LET m == MatchSize(l) IN IF m # None THEN [s EXCEPT !.n_tiers = Some(DecVal(m[1]))] ELSE s

\* DoItem with the comparison tier_idx > self.n_tiers
DoItemOffByOne(s, l) ==
    LET m == MatchItem(l)
        tier_idx == DecVal(m[1]) - 1
    IN IF m = None THEN s
       ELSE IF s.n_tiers = None THEN [s EXCEPT !.err = Some(NoTierCount)]
       ELSE IF tier_idx > s.n_tiers[1] THEN [s EXCEPT !.err = Some(TooManyTiers)]
       ELSE [s EXCEPT !.tier_header = TRUE]

\* tier_idx >= self.n_tiers: an int against None is a TypeError
DoItem(s, l) ==
    LET m == MatchItem(l)
        tier_idx == DecVal(m[1]) - 1
    IN IF m = None THEN s
       ELSE IF s.n_tiers = None THEN [s EXCEPT !.err = Some(NoTierCount)]
       ELSE IF tier_idx >= s.n_tiers[1] THEN [s EXCEPT !.err = Some(TooManyTiers)]
       ELSE [s EXCEPT !.tier_header = TRUE]

\* DoName that forgets the tier name at a line that is no name line
DoNameElseNone(s, l) ==
    LET m == MatchName(l) IN [s EXCEPT !.tier_name = IF m # None THEN Some(m[1]) ELSE None]

DoName(s, l) ==
    LET m == MatchName(l) IN IF m # None THEN [s EXCEPT !.tier_name = Some(m[1])] ELSE s

\* DoIntervals that reserves one row, whatever the size
DoIntervalsOneRow(s, l) ==
    LET m == MatchIntervals(l)
    IN IF m # None
       THEN [s EXCEPT !.content.tier = Append(@, s.tier_name), !.tier_header = FALSE]
       ELSE s

DoIntervals(s, l) ==
    LET m == MatchIntervals(l)
    IN IF m # None
       THEN [s EXCEPT !.content.tier = @ \o Repeat(s.tier_name, DecVal(m[1])),
                      !.tier_header = FALSE]
       ELSE s

\* DoXmin without the condition not tier_header
DoXminUngated(s, l) ==
    LET m == MatchXmin(l)
    IN IF m # None
       THEN IF FloatOk(m[1]) THEN [s EXCEPT !.content.start = Append(@, FloatVal(m[1]))]
            ELSE [s EXCEPT !.err = Some(BadFloat)]
       ELSE s

DoXmin(s, l) ==
    LET m == MatchXmin(l)
    IN IF m # None /\ ~s.tier_header
       THEN IF FloatOk(m[1]) THEN [s EXCEPT !.content.start = Append(@, FloatVal(m[1]))]
            ELSE [s EXCEPT !.err = Some(BadFloat)]
       ELSE s

DoXmax(s, l) ==
    LET m == MatchXmax(l)
    IN IF m # None /\ ~s.tier_header
       THEN IF FloatOk(m[1]) THEN [s EXCEPT !.content.end = Append(@, FloatVal(m[1]))]
            ELSE [s EXCEPT !.err = Some(BadFloat)]
       ELSE s

\* DoText that takes an empty capture for no match
DoTextSkipEmpty(s, l) ==
    LET m == MatchText(l)
    IN IF m # None /\ m # Some(<<>>) /\ ~s.tier_header
       THEN [s EXCEPT !.content.annotation = Append(@, m[1])]
       ELSE s

DoText(s, l) ==
    LET m == MatchText(l)
    IN IF m # None /\ ~s.tier_header
       THEN [s EXCEPT !.content.annotation = Append(@, m[1])]
       ELSE s

\* a raise leaves the rest of the iteration undone
Then(s, t) == IF s.err # None THEN s ELSE t

\* one iteration of the loop of _parse_textgrid on line l
Iteration(s, l) ==
    LET s1 == DoFileType(s, l)
        s2 == DoObjectClass(s1, l)
        s3 == DoTopXmin(s2, l)
        s4 == DoTopXmax(s3, l)
        s5 == DoTiers(s4, l)
        s6 == DoSize(s5, l)
        s7 == DoItem(s6, l)
        s8 == Then(s7, DoName(s7, l))
        s9 == Then(s8, DoIntervals(s8, l))
        s10 == Then(s9, DoXmin(s9, l))
        s11 == Then(s10, DoXmax(s10, l))
    IN Then(s11, DoText(s11, l))

\* ---------------------------------------------------------- to_textgrid
Min(S) == CHOOSE m \in S : \A k \in S : m <= k

\* the rows zip() yields: as many as the shortest column has
ZipLen(c) == Min({Len(c.tier), Len(c.start), Len(c.end), Len(c.annotation)})

\* TierSize without the filter el == tier
TierSizeUnfiltered(c, tier) == Len(c.tier)

\* len([el for el in self.content["tier"] if el == tier])
TierSize(c, tier) == Cardinality({k \in 1..Len(c.tier) : c.tier[k] = tier})

\* HeaderLines with the size counted from the distinct tier labels
HeaderLinesRecount(s) ==
    << L(0, "File type = ", <<Q>> \o StrOfStr(s.file_type) \o <<Q>>),
       L(0, "Object class = ", <<Q>> \o StrOfStr(s.object_class) \o <<Q>>),
       L(0, "", <<>>),
       L(0, "xmin ", StrOfFloat(s.xmin)),
       L(0, "xmax ", StrOfFloat(s.xmax)),
       L(0, "tiers? ", <<"<">> \o StrOfStr(s.tiers) \o <<">">>),
       L(0, "size = ",
         IntStr(Cardinality({s.content.tier[k] : k \in 1..Len(s.content.tier)}))),
       L(0, "item[]", <<>>) >>

\* the eight lines written before the rows
HeaderLines(s) ==
    << L(0, "File type = ", <<Q>> \o StrOfStr(s.file_type) \o <<Q>>),
       L(0, "Object class = ", <<Q>> \o StrOfStr(s.object_class) \o <<Q>>),
       L(0, "", <<>>),
       L(0, "xmin ", StrOfFloat(s.xmin)),
       L(0, "xmax ", StrOfFloat(s.xmax)),
       L(0, "tiers? ", <<"<">> \o StrOfStr(s.tiers) \o <<">">>),
       L(0, "size = ", StrOfInt(s.n_tiers)),
       L(0, "item[]", <<>>) >>

TierHeaderLines(s, tier, tier_idx) ==
    << L(1, "item [", IntStr(tier_idx) \o <<"]">>),
       L(2, "class = ", <<Q, "I", "n", "t", "e", "r", "v", "a", "l", "T", "i", "e", "r", Q>>),
       L(2, "name = ", <<Q>> \o StrOfStr(tier) \o <<Q>>),
       L(2, "xmin = ", StrOfFloat(s.xmin)),
       L(2, "xmax = ", StrOfFloat(s.xmax)),
       L(2, "intervals: size = ", IntStr(TierSize(s.content, tier))) >>

IntervalLines(start, end, annotation, interval_idx) ==
    << L(3, "intervals [", IntStr(interval_idx) \o <<"]", ":">>),
       L(4, "xmin = ", FloatStr(start)),
       L(4, "xmax = ", FloatStr(end)),
       L(4, "text = ", <<Q>> \o annotation \o <<Q>>) >>

\* NewTier that opens a tier at the first row only
NewTierFirstRowOnly(last_tier, tier) == last_tier = None

\* if last_tier != tier or last_tier is None
NewTier(last_tier, tier) == last_tier # tier \/ last_tier = None

\* the loop over the zipped rows, from row i on
RECURSIVE RowLines(_, _, _, _, _)
RowLines(s, i, last_tier, tier_idx, interval_idx) ==
    IF i > ZipLen(s.content) THEN <<>>
    ELSE LET tier == s.content.tier[i]
             new == NewTier(last_tier, tier)
             idx == IF new THEN 1 ELSE interval_idx
         IN (IF new THEN TierHeaderLines(s, tier, tier_idx) ELSE <<>>)
            \o IntervalLines(s.content.start[i], s.content.end[i],
                             s.content.annotation[i], idx)
            \o RowLines(s, i + 1, IF new THEN tier ELSE last_tier,
                        IF new THEN tier_idx + 1 ELSE tier_idx, idx + 1)

\* the text to_textgrid writes
TextOf(s) == HeaderLines(s) \o RowLines(s, 1, None, 1, 1)

\* --------------------------------------------------------------- paths
\* A path is the tuple of the pieces of its last component, the separator
\* "." being a piece of its own.  os.path.splitext returns as extension the
\* last "." and what follows it, unless only leading dots precede it.
Paths == { <<"sample", ".", "textgrid">>, <<"sample", ".", "TextGrid">>,
           <<"sample", ".", "csv">>, <<"sample", ".", "CSV">>,
           <<"sample", ".", "xml">>, <<"textgrid">>, <<"csv">>,
           <<".", "textgrid">>, <<"sample">> }

\* the extension as path.split(".")[-1] gives it: the last piece, no dot
splitextLastPiece(path) == <<path[Len(path)]>>

splitext(path) ==
    LET dots == Positions(path, ".")
        last == Max(dots)
    IN IF dots # {} /\ \E k \in 1..(last - 1) : path[k] # "."
       THEN Drop(path, last - 1) ELSE <<>>

TextgridExts == { <<"textgrid">>, <<"TextGrid">> }
CsvExts == { <<"csv">>, <<"CSV">> }

\* ------------------------------------------------------------- inputs
NameA == <<"a">>
NameB == <<"b">>
TierNames == {NameA, NameB}

\* the lines a text that follows no grammar is made of
FreeLines ==
    { L(0, "File type = ", <<Q, "o", "o", Q>>),
      L(0, "Object class = ", <<Q, "T", "G", Q>>),
      L(0, "xmin = ", <<"0", ".", "0">>),
      L(0, "xmin = ", <<"0">>),
      L(0, "xmax = ", <<"2", ".", "5">>),
      L(0, "xmax = ", <<"2">>),
      L(0, "tiers? ", <<"<", "e", ">">>),
      L(0, "size = ", <<"1">>),
      L(0, "size = ", <<"2">>),
      L(4, "item [", <<"1", "]", ":">>),
      L(4, "item [", <<"2", "]", ":">>),
      L(4, "item [", <<"3", "]", ":">>),
      L(8, "name = ", <<Q>> \o NameA \o <<Q>>),
      L(8, "name = ", <<Q>> \o NameB \o <<Q>>),
      L(8, "intervals: size = ", <<"1">>),
      L(8, "intervals: size = ", <<"2">>),
      L(12, "xmin = ", <<"0">>),
      L(12, "xmin = ", <<"0", ".", "0", "0", "0", "0", "1">>),
      L(12, "xmin = ", <<"-", "1">>),
      L(12, "xmax = ", <<"1", ".", "0">>),
      L(12, "xmax = ", <<"2">>),
      L(12, "text = ", <<Q, Q>>),
      L(12, "text = ", <<Q, "a", Q>>),
      L(0, "", <<>>),
      L(8, "class = ", <<Q, "I", "n", "t", "e", "r", "v", "a", "l", "T", "i", "e", "r", Q>>),
      L(0, "item []:", <<>>),
      L(8, "intervals [", <<"1", "]", ":">>) }

\* the (xmin, xmax, text) values of an interval of a well-formed text
Triples == << [xmin |-> <<"0">>, xmax |-> <<"0", ".", "5">>, text |-> <<>>],
              [xmin |-> <<"0", ".", "5">>, xmax |-> <<"1", ".", "0">>, text |-> <<"a">>] >>

\* Writer of a text that follows the grammar.  g.ph names the line to come,
\* g.c the declared tier count, g.i the tier, g.k its size, g.j the
\* interval, g.t its triple, g.n the intervals written so far.  A "wf" text
\* is well-formed; a "nameless" text is the same without the name lines.
\* The writer keeps what it wrote: g.nm the name of the tier it is in (None
\* while the tier has none), g.sum the sum of the sizes it declared, g.rows
\* the tier name of each interval it wrote.
GramStart == [ph |-> "FileType", c |-> 0, i |-> 0, k |-> 0, j |-> 0, t |-> 1, n |-> 0,
              nm |-> None, sum |-> 0, rows |-> <<>>]

AfterTier(g) == [g EXCEPT !.ph = IF g.i < g.c THEN "item" ELSE "end"]

WfNext(g, src) ==
    CASE g.ph = "FileType" ->
           { [line |-> L(0, "File type = ", <<Q, "o", "o", Q>>), gram |-> [g EXCEPT !.ph = "ObjectClass"]] }
      [] g.ph = "ObjectClass" ->
           { [line |-> L(0, "Object class = ", <<Q, "T", "G", Q>>), gram |-> [g EXCEPT !.ph = "blank"]] }
      [] g.ph = "blank" ->
           { [line |-> L(0, "", <<>>), gram |-> [g EXCEPT !.ph = "xmin"]] }
      [] g.ph = "xmin" ->
           { [line |-> L(0, "xmin = ", <<"0", ".", "0">>), gram |-> [g EXCEPT !.ph = "xmax"]] }
      [] g.ph = "xmax" ->
           { [line |-> L(0, "xmax = ", <<"1", ".", "0">>), gram |-> [g EXCEPT !.ph = "tiers"]] }
      [] g.ph = "tiers" ->
           { [line |-> L(0, "tiers? ", <<"<", "e", ">">>), gram |-> [g EXCEPT !.ph = "size"]] }
      [] g.ph = "size" ->
           { [line |-> L(0, "size = ", IntStr(c)), gram |-> [g EXCEPT !.ph = "items", !.c = c]]
             : c \in 1..MaxTiers }
      [] g.ph = "items" ->
           { [line |-> L(0, "item []:", <<>>), gram |-> [g EXCEPT !.ph = "item"]] }
      [] g.ph = "item" ->
           { [line |-> L(4, "item [", IntStr(g.i + 1) \o <<"]", ":">>),
              gram |-> [g EXCEPT !.ph = "class", !.i = g.i + 1, !.nm = None]] }
      [] g.ph = "class" ->
           { [line |-> L(8, "class = ", <<Q, "I", "n", "t", "e", "r", "v", "a", "l", "T", "i", "e", "r", Q>>),
              gram |-> [g EXCEPT !.ph = IF src = "nameless" THEN "txmin" ELSE "name"]] }
      [] g.ph = "name" ->
           { [line |-> L(8, "name = ", <<Q>> \o nm \o <<Q>>),
              gram |-> [g EXCEPT !.ph = "txmin", !.nm = Some(nm)]]
             : nm \in TierNames }
      [] g.ph = "txmin" ->
           { [line |-> L(8, "xmin = ", <<"0", ".", "0">>), gram |-> [g EXCEPT !.ph = "txmax"]] }
      [] g.ph = "txmax" ->
           { [line |-> L(8, "xmax = ", <<"1", ".", "0">>), gram |-> [g EXCEPT !.ph = "isize"]] }
      [] g.ph = "isize" ->
           { [line |-> L(8, "intervals: size = ", IntStr(k)),
              gram |-> IF k = 0 THEN AfterTier([g EXCEPT !.k = 0, !.j = 0])
                       ELSE [g EXCEPT !.ph = "ihead", !.k = k, !.j = 1, !.sum = g.sum + k]]
             : k \in {k \in 0..MaxSize : g.n + k <= MaxRows} }
      [] g.ph = "ihead" ->
           { [line |-> L(8, "intervals [", IntStr(g.j) \o <<"]", ":">>),
              gram |-> [g EXCEPT !.ph = "ixmin", !.t = t]] : t \in 1..Len(Triples) }
      [] g.ph = "ixmin" ->
           { [line |-> L(12, "xmin = ", Triples[g.t].xmin), gram |-> [g EXCEPT !.ph = "ixmax"]] }
      [] g.ph = "ixmax" ->
           { [line |-> L(12, "xmax = ", Triples[g.t].xmax), gram |-> [g EXCEPT !.ph = "itext"]] }
      [] g.ph = "itext" ->
           { [line |-> L(12, "text = ", <<Q>> \o Triples[g.t].text \o <<Q>>),
              gram |-> IF g.j < g.k
                       THEN [g EXCEPT !.ph = "ihead", !.j = g.j + 1, !.n = g.n + 1, !.t = 1,
                                      !.rows = Append(g.rows, g.nm)]
                       ELSE AfterTier([g EXCEPT !.n = g.n + 1, !.t = 1,
                                                !.rows = Append(g.rows, g.nm)])] }
      [] OTHER -> {}

\* --------------------------------------------------------------- state
VARIABLES
    pc,            \* where the program is
    call,          \* the method entered last
    file_path,     \* self.file_path / the path of the last call
    file_type, object_class, xmin, xmax, tiers, n_tiers, tier_list, content,
    tier_header, tier_name, line,    \* locals of _parse_textgrid
    outcome,       \* how the last call ended: None while it has not
    source,        \* the text being read: "free", "wf", "nameless", "written"
    gram,          \* the writer of the text that follows the grammar
    nread,         \* lines read so far
    written,       \* the text to_textgrid wrote
    table,         \* the table to_csv wrote
    saved          \* the document that was written, and the text it came of

fields == <<file_type, object_class, xmin, xmax, tiers, n_tiers, content>>
locals == <<tier_header, tier_name, line>>
vars == <<pc, call, file_path, file_type, object_class, xmin, xmax, tiers, n_tiers,
          tier_list, content, tier_header, tier_name, line, outcome, source, gram,
          nread, written, table, saved>>

\* the object and the locals as one record
Cur == [file_type |-> file_type, object_class |-> object_class, xmin |-> xmin,
        xmax |-> xmax, tiers |-> tiers, n_tiers |-> n_tiers, content |-> content,
        tier_header |-> tier_header, tier_name |-> tier_name, err |-> None]

Assign(r) ==
    /\ file_type' = r.file_type
    /\ object_class' = r.object_class
    /\ xmin' = r.xmin
    /\ xmax' = r.xmax
    /\ tiers' = r.tiers
    /\ n_tiers' = r.n_tiers
    /\ content' = r.content
    /\ tier_header' = r.tier_header
    /\ tier_name' = r.tier_name

\* the document: header fields and columns
Doc == [file_type |-> file_type, object_class |-> object_class, xmin |-> xmin,
        xmax |-> xmax, tiers |-> tiers, n_tiers |-> n_tiers, content |-> content]

Init ==
    /\ pc = "start"
    /\ call = "none"
    /\ file_path = None
    /\ file_type = NewObject.file_type
    /\ object_class = NewObject.object_class
    /\ xmin = NewObject.xmin
    /\ xmax = NewObject.xmax
    /\ tiers = NewObject.tiers
    /\ n_tiers = NewObject.n_tiers
    /\ content = NewObject.content
    /\ tier_header = NewObject.tier_header
    /\ tier_name = NewObject.tier_name
    /\ tier_list = {}
    /\ line = None
    /\ outcome = None
    /\ source = "none"
    /\ gram = GramStart
    /\ nread = 0
    /\ written = <<>>
    /\ table = None
    /\ saved = None

\* -------------------------------------------------------------- actions
\* the branch the extension of path selects in __init__, to_csv, to_textgrid
Branch(path) ==
    LET extension == splitext(path)
    IN IF extension \in TextgridExts THEN "textgrid"
       ELSE IF extension \in CsvExts THEN "csv"
       ELSE "other"

\* TextGrid(path): the fields are set, then the extension selects the reader
Construct(path) ==
    /\ pc = "start"
    /\ call' = "__init__"
    /\ file_path' = Some(path)
    /\ pc' = CASE Branch(path) = "textgrid" -> "parse"
               [] Branch(path) = "csv" -> "csv_written"
               [] OTHER -> "raised"
    /\ outcome' = IF Branch(path) = "other" THEN Some(Unsupported) ELSE None
    /\ source' = IF Branch(path) = "textgrid" THEN "free" ELSE source
    /\ UNCHANGED <<fields, locals, tier_list, gram, nread, written, table, saved>>

\* _parse_textgrid() entered on a new object: the file is opened and read
\* (src tells what the file holds), the locals are set
OpenTextgrid(src) ==
    /\ pc = "start"
    /\ call' = "_parse_textgrid"
    /\ file_path' = Some(<<"sample", ".", "TextGrid">>)
    /\ source' = src
    /\ pc' = "parse"
    /\ UNCHANGED <<fields, locals, tier_list, outcome, gram, nread, written, table, saved>>

\* the lines that can come next in the text being read, each with the
\* writer's state after it
Coming ==
    CASE source = "free" ->
           IF nread < MaxFree THEN { [line |-> l, gram |-> gram] : l \in FreeLines } ELSE {}
      [] source \in {"wf", "nameless"} -> WfNext(gram, source)
      [] source = "written" ->
           IF nread < Len(written) THEN { [line |-> written[nread + 1], gram |-> gram] } ELSE {}
      [] OTHER -> {}

\* the text can end here
AtEnd ==
    CASE source = "free" -> TRUE
      [] source \in {"wf", "nameless"} -> gram.ph = "end"
      [] source = "written" -> nread = Len(written)
      [] OTHER -> FALSE

\* one iteration of the loop over the lines
ParseLine ==
    /\ pc = "parse"
    /\ \E c \in Coming :
         LET r == Iteration(Cur, c.line)
         IN /\ Assign(r)
            /\ line' = Some(c.line)
            /\ gram' = c.gram
            /\ nread' = nread + 1
            /\ pc' = IF r.err = None THEN "parse" ELSE "raised"
            /\ outcome' = r.err
    /\ UNCHANGED <<call, file_path, tier_list, source, written, table, saved>>

\* the loop is over: tier_list, and _parse_textgrid returns (its locals
\* and its place in the text are gone)
ParseEnd ==
    /\ pc = "parse"
    /\ AtEnd
    /\ tier_list' = {content.tier[k] : k \in 1..Len(content.tier)}
    /\ pc' = IF source = "written" THEN "reloaded" ELSE "loaded"
    /\ outcome' = Some(Ok)
    /\ tier_header' = NewObject.tier_header
    /\ tier_name' = NewObject.tier_name
    /\ line' = None
    /\ gram' = GramStart
    /\ nread' = 0
    /\ UNCHANGED <<call, file_path, fields, source, written, table, saved>>

\* to_textgrid that writes the text before it checks the extension
ToTextgridWriteFirst(path) ==
    /\ pc = "loaded"
    /\ call' = "to_textgrid"
    /\ file_path' = Some(path)
    /\ outcome' = CASE Branch(path) = "textgrid" -> Some(Ok)
                    [] Branch(path) = "csv" -> Some(InvalidForTextgrid)
                    [] OTHER -> Some(Unsupported)
    /\ written' = TextOf(Cur)
    /\ pc' = IF Branch(path) = "textgrid" THEN "returned" ELSE "raised"
    /\ UNCHANGED <<fields, locals, tier_list, source, gram, nread, table, saved>>

\* to_textgrid(path): the extension check; a path that passes it gets the text
ToTextgrid(path) ==
    /\ pc = "loaded"
    /\ call' = "to_textgrid"
    /\ file_path' = Some(path)
    /\ outcome' = CASE Branch(path) = "textgrid" -> Some(Ok)
                    [] Branch(path) = "csv" -> Some(InvalidForTextgrid)
                    [] OTHER -> Some(Unsupported)
    /\ written' = IF Branch(path) = "textgrid" THEN TextOf(Cur) ELSE written
    /\ pc' = IF Branch(path) = "textgrid" THEN "returned" ELSE "raised"
    /\ UNCHANGED <<fields, locals, tier_list, source, gram, nread, table, saved>>

\* to_csv(path): the extension check; a path that passes it gets the table
ToCsv(path) ==
    /\ pc = "loaded"
    /\ call' = "to_csv"
    /\ file_path' = Some(path)
    /\ outcome' = CASE Branch(path) = "textgrid" -> Some(InvalidForCsv)
                    [] Branch(path) = "csv" -> Some(Ok)
                    [] OTHER -> Some(Unsupported)
    /\ table' = IF Branch(path) = "csv" THEN Some(content) ELSE table
    /\ pc' = IF Branch(path) = "csv" THEN "returned" ELSE "raised"
    /\ UNCHANGED <<fields, locals, tier_list, source, gram, nread, written, saved>>

\* the statements of to_textgrid after the extension check: the text is
\* built and written
WriteTextgrid ==
    /\ pc = "loaded"
    /\ call' = "to_textgrid:185"
    /\ written' = TextOf(Cur)
    /\ saved' = Some([doc |-> Doc, of |-> source])
    /\ pc' = "written"
    /\ outcome' = Some(Ok)
    /\ UNCHANGED <<file_path, fields, locals, tier_list, source, gram, nread, table>>

\* _parse_textgrid() entered on a new object for the file just written
Reopen ==
    /\ pc = "written"
    /\ call' = "_parse_textgrid"
    /\ Assign(NewObject)
    /\ line' = None
    /\ tier_list' = {}
    /\ source' = "written"
    /\ nread' = 0
    /\ outcome' = None
    /\ pc' = "parse"
    /\ UNCHANGED <<file_path, gram, written, table, saved>>

\* the statements of to_csv after the extension check: the four columns
\* go to the table
WriteCsv ==
    /\ pc = "loaded"
    /\ call' = "to_csv:163"
    /\ table' = Some(content)
    /\ saved' = Some([doc |-> Doc, of |-> source])
    /\ pc' = "csv_written"
    /\ outcome' = Some(Ok)
    /\ UNCHANGED <<file_path, fields, locals, tier_list, source, gram, nread, written>>

\* pd.DataFrame(self.file_path): the constructor is given the path, not a
\* table, and raises; the four assignments that follow are not reached
DataFrame(data) ==
    IF data \in Paths THEN [err |-> Some(BadFrame), df |-> None]
    ELSE [err |-> None, df |-> Some(data)]

\* _parse_csv(names) entered on a new object for the table just written
ParseCsv ==
    /\ pc = "csv_written"
    /\ call' = "_parse_csv"
    /\ LET path == <<"sample", ".", "csv">>
           r == DataFrame(path)
       IN /\ file_path' = Some(path)
          /\ Assign([NewObject EXCEPT !.content = IF r.err = None THEN r.df[1] ELSE @])
          /\ outcome' = IF r.err = None THEN Some(Ok) ELSE r.err
          /\ pc' = IF r.err = None THEN "reloaded" ELSE "raised"
    /\ line' = None
    /\ tier_list' = {}
    /\ UNCHANGED <<source, gram, nread, written, table, saved>>

Next ==
    \/ \E path \in Paths : Construct(path)
    \/ \E src \in {"free", "wf", "nameless"} : OpenTextgrid(src)
    \/ ParseLine
    \/ ParseEnd
    \/ \E path \in Paths : ToTextgrid(path)
    \/ \E path \in Paths : ToCsv(path)
    \/ WriteTextgrid
    \/ Reopen
    \/ WriteCsv
    \/ ParseCsv

Spec == Init /\ [][Next]_vars

\* --------------------------------------------------------------- claims
SampleTextgrid == {<<"sample", ".", "textgrid">>, <<"sample", ".", "TextGrid">>}
SampleCsv == {<<"sample", ".", "csv">>, <<"sample", ".", "CSV">>}
SampleXml == <<"sample", ".", "xml">>

\* C1: a document parsed from a well-formed text, written by to_textgrid and
\* parsed again, has the same header fields and the same columns.
C1_RoundTrip ==
    (pc = "reloaded" /\ call = "_parse_textgrid" /\ saved # None /\ saved[1].of = "wf")
        => Doc = saved[1].doc

\* C2: TextGrid(path) runs the TextGrid parser for sample.textgrid and
\* sample.TextGrid, the tabular import for sample.csv and sample.CSV, and
\* raises the unsupported-extension error for sample.xml.
C2_ExtensionDispatch ==
    (call = "__init__" /\ file_path # None)
        => /\ file_path[1] \in SampleTextgrid => (pc = "parse" /\ outcome = None)
           /\ file_path[1] \in SampleCsv => (pc = "csv_written" /\ outcome = None)
           /\ file_path[1] = SampleXml => (pc = "raised" /\ outcome = Some(Unsupported))

\* C3: to_textgrid with a .csv path and to_csv with a .textgrid path raise the
\* invalid-extension error; with a path of neither format they raise the
\* unsupported-extension error.
C3_MismatchedSave ==
    /\ (call = "to_textgrid" /\ file_path[1] \in SampleCsv)
           => (pc = "raised" /\ outcome = Some(InvalidForTextgrid))
    /\ (call = "to_csv" /\ file_path[1] \in SampleTextgrid)
           => (pc = "raised" /\ outcome = Some(InvalidForCsv))
    /\ (call \in {"to_textgrid", "to_csv"} /\ file_path[1] = SampleXml)
           => (pc = "raised" /\ outcome = Some(Unsupported))

ItemLine(n) == L(4, "item [", IntStr(n) \o <<"]", ":">>)

\* C4: once a top-level size = C line has been read, an item [N] line with
\* N - 1 >= C stops the parse with the too-many-tiers error at that line, and
\* an item [N] line with N - 1 < C raises nothing.
C4_TierCountValidation ==
    \A n \in 1..(MaxTiers + 1) :
        (call = "_parse_textgrid" /\ pc \in {"parse", "raised"}
         /\ line = Some(ItemLine(n)) /\ n_tiers # None)
            => IF n - 1 >= n_tiers[1]
               THEN pc = "raised" /\ outcome = Some(TooManyTiers)
               ELSE pc = "parse" /\ outcome = None

\* size = 2 has been read and item [3] stops the parse
C4_Witness ==
    /\ pc = "raised" /\ outcome = Some(TooManyTiers)
    /\ line = Some(ItemLine(3)) /\ n_tiers = Some(2)

\* ---- reading the text to_textgrid wrote
IsItemLine(l) == l.lit = "item ["
IsNameLine(l) == l.lit = "name = "
IsSizeLine(l) == l.lit = "intervals: size = "
IsIntervalLine(l) == l.lit = "intervals ["

\* the number a line's value starts with
NumberOf(l) == DecVal(Take(l.rest, Span(l.rest, Digits)))
\* the string between the quotes of a line's value
QuotedOf(l) == SubSeq(l.rest, 2, Len(l.rest) - 1)

\* positions of the tier headers and of the interval blocks of the text
ItemPos == {p \in 1..Len(written) : IsItemLine(written[p])}
IntervalPos == {p \in 1..Len(written) : IsIntervalLine(written[p])}
\* the k-th smallest element of a set of numbers
Kth(S, k) == CHOOSE p \in S : Cardinality({q \in S : q <= p}) = k
\* the interval blocks under the k-th tier header
Under(k) ==
    {q \in IntervalPos : q > Kth(ItemPos, k) /\ \A p \in ItemPos : p > Kth(ItemPos, k) => q < p}
HeaderCount == Cardinality(ItemPos)
HeaderIndex(k) == NumberOf(written[Kth(ItemPos, k)])
HeaderName(k) == QuotedOf(SelectSeq(written, IsNameLine)[k])
HeaderSize(k) == NumberOf(SelectSeq(written, IsSizeLine)[k])

\* ---- the rows of the document
Aligned == /\ Len(content.start) = Len(content.tier)
           /\ Len(content.end) = Len(content.tier)
           /\ Len(content.annotation) = Len(content.tier)
\* the labels of the rows the serializer walks
Labels == Take(content.tier, ZipLen(content))
NoNullLabel == \A i \in 1..Len(content.tier) : content.tier[i] # None
Contiguous(label) ==
    \A i, j \in 1..Len(Labels) :
        (i < j /\ Labels[i] = label /\ Labels[j] = label)
            => \A k \in i..j : Labels[k] = label
AllContiguous == \A i \in 1..Len(Labels) : Contiguous(Labels[i])
\* rows at which a label appears for the first time, rows at which a run starts
FirstRows == {i \in 1..Len(Labels) : \A j \in 1..(i - 1) : Labels[j] # Labels[i]}
RunStarts == {i \in 1..Len(Labels) : i = 1 \/ Labels[i] # Labels[i - 1]}
RunLength(i) ==
    Cardinality({j \in i..Len(Labels) : \A k \in i..j : Labels[k] = Labels[i]})
RowsOf(label) == Cardinality({i \in 1..Len(Labels) : Labels[i] = label})

\* one tier header per distinct label, in order of first appearance, numbered
\* 1..m; each declared size is the number of interval blocks under the
\* header; the blocks under a header are numbered 1..k
OneTierPerLabel ==
    /\ HeaderCount = Cardinality(FirstRows)
    /\ \A k \in 1..HeaderCount :
         /\ HeaderIndex(k) = k
         /\ HeaderName(k) = StrOfStr(Labels[Kth(FirstRows, k)])
         /\ HeaderSize(k) = Cardinality(Under(k))
         /\ \A j \in 1..Cardinality(Under(k)) : NumberOf(written[Kth(Under(k), j)]) = j

NonContiguousLabels == {Labels[i] : i \in 1..Len(Labels)} \ {l \in {Labels[i] : i \in 1..Len(Labels)} : Contiguous(l)}
HeadersNamed(label) == {k \in 1..HeaderCount : HeaderName(k) = StrOfStr(label)}

\* C9 as stated: a label that occurs in two non-contiguous blocks gets one
\* tier header, whose declared size (the rows of that label in the whole
\* sequence) is the number of interval blocks written under it.
C9_OneTierAsStated ==
    (pc = "written" /\ Aligned /\ NoNullLabel)
        => \A label \in NonContiguousLabels :
             /\ Cardinality(HeadersNamed(label)) = 1
             /\ \A k \in HeadersNamed(label) :
                  HeaderSize(k) = RowsOf(label) /\ HeaderSize(k) = Cardinality(Under(k))

\* C9 amended: to_textgrid writes one tier header per contiguous block, so a
\* label in non-contiguous blocks gets a header for each of its blocks; each
\* of these headers declares as size the rows of that label in the whole
\* sequence, which is more than the interval blocks written under it.
C9_OneTierPerRun ==
    (pc = "written" /\ Aligned /\ NoNullLabel /\ NonContiguousLabels # {})
        => /\ HeaderCount = Cardinality(RunStarts)
           /\ \A k \in 1..HeaderCount :
                LET i == Kth(RunStarts, k)
                IN /\ HeaderName(k) = StrOfStr(Labels[i])
                   /\ HeaderSize(k) = RowsOf(Labels[i])
                   /\ Cardinality(Under(k)) = RunLength(i)
                   /\ Labels[i] \in NonContiguousLabels
                        => HeaderSize(k) > Cardinality(Under(k))
           /\ \A label \in NonContiguousLabels : Cardinality(HeadersNamed(label)) >= 2

\* rows a, b, a have been written
C9_Witness ==
    /\ pc = "written" /\ Aligned
    /\ content.tier = <<Some(NameA), Some(NameB), Some(NameA)>>
    /\ HeaderCount = 3

IsTextLine(l) == l.lit = "text = "
EmptyTextLine(l) == l.ind >= 1 /\ l.lit = "text = " /\ l.rest = <<Q, Q>>
TextLines(text) == SelectSeq(text, IsTextLine)

\* C6: a text = "" line inside an interval run appends the empty string to
\* the annotation column; to_textgrid writes one text line per row, in row
\* order, text = "" for a row whose annotation is empty; and the text it
\* wrote parses back to the same annotations at the same positions.
C6_EmptyAnnotation ==
    [][ /\ (pc = "parse" /\ nread' = nread + 1 /\ EmptyTextLine(line'[1]) /\ ~tier_header)
            => (pc' = "parse" /\ content'.annotation = Append(content.annotation, <<>>))
        /\ (pc' = "written")
            => /\ Len(TextLines(written')) = ZipLen(content')
               /\ \A i \in 1..ZipLen(content') :
                    /\ QuotedOf(TextLines(written')[i]) = content'.annotation[i]
                    /\ content'.annotation[i] = <<>>
                         => TextLines(written')[i] = L(4, "text = ", <<Q, Q>>)
        /\ (pc' = "reloaded" /\ call' = "_parse_textgrid")
            => content'.annotation
                 = Take(saved'[1].doc.content.annotation, ZipLen(saved'[1].doc.content))
      ]_vars

\* a document with an empty annotation has been written and parsed back
C6_Witness ==
    /\ pc = "reloaded" /\ call = "_parse_textgrid"
    /\ \E i \in 1..Len(content.annotation) :
         content.annotation[i] = <<>> /\ saved[1].doc.content.annotation[i] = <<>>

\* C7: the table to_csv wrote, imported with the default column names, gives
\* a document with the rows of the exported one and no file_type, xmin, xmax.
C7_TabularProjection ==
    call = "_parse_csv"
        => /\ pc = "reloaded" /\ outcome = Some(Ok)
           /\ content = saved[1].doc.content
           /\ file_type = None /\ xmin = None /\ xmax = None

\* C8: a top-level xmin = 0 or xmax = 2 line read before any tier name sets
\* xmin or xmax to that value, and an indented xmin = 0 or xmax = 2 line
\* inside an interval run appends that value to the start or end column.
C8_IntegerLooking ==
    /\ (pc = "parse" /\ tier_name = None /\ line = Some(L(0, "xmin = ", <<"0">>)))
           => xmin = Some(0)
    /\ (pc = "parse" /\ tier_name = None /\ line = Some(L(0, "xmax = ", <<"2">>)))
           => xmax = Some(2 * Scale)
    /\ (pc = "parse" /\ ~tier_header /\ line = Some(L(12, "xmin = ", <<"0">>)))
           => (content.start # <<>> /\ content.start[Len(content.start)] = 0)
    /\ (pc = "parse" /\ ~tier_header /\ line = Some(L(12, "xmax = ", <<"2">>)))
           => (content.end # <<>> /\ content.end[Len(content.end)] = 2 * Scale)

\* C10: tier_header is true at the start of the input, becomes true at an
\* item [N] line that raises nothing, becomes false at an intervals: size
\* line and changes at no other line; and while it is true no line appends
\* to the start, end or annotation column.
C10_TierHeaderGating ==
    [][ /\ (pc' = "parse" /\ nread' = 0) => tier_header'
        /\ (pc = "parse" /\ nread' = nread + 1)
            => /\ tier_header
                    => /\ content'.start = content.start
                       /\ content'.end = content.end
                       /\ content'.annotation = content.annotation
               /\ tier_header' = IF IsSizeLine(line'[1]) /\ line'[1].ind >= 1 THEN FALSE
                                 ELSE IF IsItemLine(line'[1]) /\ line'[1].ind >= 1 /\ pc' = "parse"
                                      THEN TRUE
                                 ELSE tier_header
      ]_vars

\* the xmin line of a tier header has been read and is no interval start
C10_Witness ==
    /\ pc = "parse" /\ tier_header /\ tier_name # None
    /\ line = Some(L(8, "xmin = ", <<"0", ".", "0">>))
    /\ content.start = <<>>

\* a line whose number, if it is an interval xmin or xmax line, is a number
NumberIsNumber(l) == (l.ind >= 1 /\ l.lit \in {"xmin = ", "xmax = "}) => FloatOk(l.rest)

\* C11: on lines of the recognized kinds in any order, the parse fails with
\* the too-many-tiers error or not at all, and it fails only at an item [N]
\* line whose index exceeds the declared tier count.
C11_OnlyStructureError ==
    (call = "_parse_textgrid" /\ pc = "raised" /\ NumberIsNumber(line[1]))
        => /\ outcome = Some(TooManyTiers)
           /\ IsItemLine(line[1])
           /\ n_tiers # None
           /\ NumberOf(line[1]) - 1 >= n_tiers[1]

\* C12: at the end of a text in which every intervals: size = K line is
\* followed by exactly K xmin, xmax, text triples, the four columns have one
\* length, the sum of the declared sizes, and row i carries the name of the
\* tier whose run holds the i-th triple (runs of one name stay apart).
C12_ColumnAlignment ==
    (pc = "parse" /\ source \in {"wf", "nameless"} /\ gram.ph = "end")
        => /\ Len(content.tier) = gram.sum
           /\ Len(content.start) = gram.sum
           /\ Len(content.end) = gram.sum
           /\ Len(content.annotation) = gram.sum
           /\ content.tier = gram.rows

\* three tiers named a, b, a, one interval each, have been read
C12_Witness ==
    /\ pc = "parse" /\ source = "wf" /\ gram.ph = "end" /\ gram.sum = 3
    /\ content.tier = <<Some(NameA), Some(NameB), Some(NameA)>>
    /\ Len(content.start) = 3 /\ Len(content.end) = 3 /\ Len(content.annotation) = 3

\* a top-level xmin or xmax line, whatever its number
IsTopBound(l) == l.ind = 0 /\ l.lit \in {"xmin = ", "xmax = "}

\* C13: a line read while a tier name is known leaves the document's xmin and
\* xmax as they are and the tier name known; a line read while none is known
\* changes them only if it is a top-level xmin or xmax line; and a top-level
\* xmin or xmax line never adds to the interval columns.
C13_HeaderBoundsFrozen ==
    [][(pc = "parse" /\ nread' = nread + 1)
        => /\ tier_name # None => (xmin' = xmin /\ xmax' = xmax /\ tier_name' # None)
           /\ (xmin' # xmin \/ xmax' # xmax) => (tier_name = None /\ IsTopBound(line'[1]))
           /\ IsTopBound(line'[1]) => content' = content]_vars

\* a top-level xmin = 0.0 line read after a name line left xmin unset
C13_Witness ==
    /\ pc = "parse" /\ tier_name # None /\ xmin = None
    /\ line = Some(L(0, "xmin = ", <<"0", ".", "0">>))

\* the path whose file name is the word textgrid alone
BareTextgrid == <<"textgrid">>

\* C14 as stated: the path textgrid is routed to the TextGrid parser on load
\* and passes the extension check of to_textgrid, while sample.textgrid and
\* sample.TextGrid are not matched.
C14_BareNameAsStated ==
    /\ (call = "__init__" /\ file_path = Some(BareTextgrid))
           => (outcome # Some(Unsupported) /\ source = "free")
    /\ (call = "to_textgrid" /\ file_path = Some(BareTextgrid)) => outcome = Some(Ok)
    /\ (call \in {"__init__", "to_textgrid"} /\ file_path # None
            /\ file_path[1] \in SampleTextgrid) => outcome = Some(Unsupported)

\* C14: the comparison matches no path at all: on load and in to_textgrid
\* every path, the bare name textgrid as much as sample.textgrid, ends in the
\* unsupported-extension error, no line is read and no text is written.
C14_NoPathMatches ==
    (call \in {"__init__", "to_textgrid"} /\ file_path # None)
        => /\ pc = "raised" /\ outcome = Some(Unsupported)
           /\ call = "__init__" => (nread = 0 /\ content = EmptyContent)
           /\ call = "to_textgrid" => written = <<>>

\* TextGrid("textgrid") has raised the unsupported-extension error
C14_Witness ==
    /\ call = "__init__" /\ file_path = Some(BareTextgrid)
    /\ pc = "raised" /\ outcome = Some(Unsupported)

\* the top-level size lines of the text written
TopSizePos == {p \in 1..Len(written) : written[p].ind = 0 /\ written[p].lit = "size = "}

\* the distinct tier labels of the rows
DistinctLabels == {content.tier[k] : k \in 1..Len(content.tier)}

\* C15: the text to_textgrid writes has one top-level size line, the seventh
\* line, and it carries the stored n_tiers (the word None when there is
\* none), whatever the rows and however many tier headers follow it.
C15_SizeAsStored ==
    (pc = "written" /\ call = "to_textgrid:185")
        => /\ TopSizePos = {7}
           /\ n_tiers = None => written[7].rest = NoneStr
           /\ n_tiers # None
                => (written[7].rest = IntStr(n_tiers[1]) /\ NumberOf(written[7]) = n_tiers[1])

\* a text written with size = 2 over one tier header and one distinct label
C15_Witness ==
    /\ pc = "written" /\ call = "to_textgrid:185"
    /\ n_tiers = Some(2) /\ HeaderCount = 1 /\ Cardinality(DistinctLabels) = 1
    /\ NumberOf(written[7]) = 2

\* the calls that save: the two methods and their bodies after the check
SaveCalls == {"to_textgrid", "to_csv", "to_textgrid:185", "to_csv:163"}

\* C16: a call of to_textgrid or to_csv, whether it raises or writes, leaves
\* the header fields, the four columns and the tier list as they were; and
\* when it raises, the text and the table written so far are as before.
C16_SaveFrame ==
    [][(pc = "loaded" /\ call' \in SaveCalls)
        => /\ fields' = fields /\ tier_list' = tier_list
           /\ pc' = "raised"
                => (written' = written /\ table' = table
                    /\ outcome' \in {Some(Unsupported), Some(InvalidForTextgrid),
                                     Some(InvalidForCsv)})]_vars

\* to_textgrid has raised on a document with rows and nothing was written
C16_Witness ==
    /\ call = "to_textgrid" /\ pc = "raised" /\ outcome = Some(Unsupported)
    /\ content.tier # <<>> /\ written = <<>> /\ table = None

\* a line none of the twelve patterns of the loop matches
Unrecognized(l) ==
    /\ MatchFileType(l) = None /\ MatchObjectClass(l) = None
    /\ MatchTopXmin(l) = None /\ MatchTopXmax(l) = None
    /\ MatchTiers(l) = None /\ MatchSize(l) = None
    /\ MatchItem(l) = None /\ MatchName(l) = None /\ MatchIntervals(l) = None
    /\ MatchXmin(l) = None /\ MatchXmax(l) = None /\ MatchText(l) = None

\* a blank line, a class line, item []: and an intervals [1]: line
IgnoredExamples ==
    { L(0, "", <<>>),
      L(8, "class = ", <<Q, "I", "n", "t", "e", "r", "v", "a", "l", "T", "i", "e", "r", Q>>),
      L(0, "item []:", <<>>),
      L(8, "intervals [", <<"1", "]", ":">>) }

\* C17: reading a line that no pattern matches, the four example lines among
\* them, raises nothing and leaves the header fields, the declared tier
\* count, the four columns, tier_header and tier_name as they were.
C17_UnrecognizedIgnored ==
    [][(pc = "parse" /\ nread' = nread + 1
            /\ (Unrecognized(line'[1]) \/ line'[1] \in IgnoredExamples))
        => /\ pc' = "parse" /\ outcome' = outcome
           /\ fields' = fields
           /\ tier_header' = tier_header /\ tier_name' = tier_name]_vars

\* an intervals [1]: line has been read inside an interval run of a named tier
C17_Witness ==
    /\ pc = "parse" /\ line = Some(L(8, "intervals [", <<"1", "]", ":">>))
    /\ ~tier_header /\ tier_name # None /\ content.tier # <<>>

====
